---- MODULE Spec2Model ----
(***************************************************************************)
(* UpdateComponentsSchemaMatcher (specification/0.9/eval): the matcher     *)
(* that looks for a component of a given type, optionally carrying a       *)
(* property with an expected value, in an `updateComponents` message.      *)
(*                                                                         *)
(* JavaScript values are tagged records; a JavaScript string is the        *)
(* sequence of its characters, so that lower-casing, JSON serialisation    *)
(* and "the error text contains ..." are computed and not assumed.  An     *)
(* object is the sequence of its <<key, value>> pairs in insertion order,  *)
(* which is the order JSON.stringify writes them in.                       *)
(***************************************************************************)
EXTENDS Integers, Sequences, FiniteSets, TLC

VARIABLES
  pc,          \* "new" | "constructed" | "validated" | "matched" | "described"
  matcher,     \* the fields the constructor sets (immutable afterwards)
  schema,      \* the argument of the validate call in progress
  result,      \* what that call produced: a returned ValidationResult or a throw
  actualValue, \* the actual value handed to valueMatches
  matched,     \* what valueMatches returned for it
  desc         \* what the description getter returned

vars == <<pc, matcher, schema, result, actualValue, matched, desc>>

(***************************************************************************)
(* Bounds of the model.                                                    *)
(***************************************************************************)
\* The longest component list of a message.
MaxComponents == 2
\* The longest array held as a property value.
MaxItems == 1

(***************************************************************************)
(* String literals of the source, character by character.                  *)
(***************************************************************************)

\* "updateComponents"
sUpdateComponents == <<"u","p","d","a","t","e","C","o","m","p","o","n","e","n","t","s">>
\* "components"
sComponents == <<"c","o","m","p","o","n","e","n","t","s">>
\* "props"
sProps == <<"p","r","o","p","s">>
\* "component"
sComponent == <<"c","o","m","p","o","n","e","n","t">>
\* "id"
sId == <<"i","d">>
\* "child"
sChild == <<"c","h","i","l","d">>
\* "text"
sText == <<"t","e","x","t">>
\* "label"
sLabel == <<"l","a","b","e","l">>
\* "value"
sValue == <<"v","a","l","u","e">>
\* "path"
sPath == <<"p","a","t","h">>
\* "success"
sSuccess == <<"s","u","c","c","e","s","s">>
\* "error"
sError == <<"e","r","r","o","r">>
\* "Button"
sButton == <<"B","u","t","t","o","n">>
\* "Text"
sTextType == <<"T","e","x","t">>
\* "undefined"
sUndefined == <<"u","n","d","e","f","i","n","e","d">>
\* "null"
sNull == <<"n","u","l","l">>
\* "true"
sTrue == <<"t","r","u","e">>
\* "false"
sFalse == <<"f","a","l","s","e">>
\* "Expected a 'updateComponents' message but found none."
msgNoUpdateComponents ==
  <<"E","x","p","e","c","t","e","d"," ","a"," ","'","u","p","d","a",
    "t","e","C","o","m","p","o","n","e","n","t","s","'"," ","m","e",
    "s","s","a","g","e"," ","b","u","t"," ","f","o","u","n","d"," ",
    "n","o","n","e",".">>
\* A faulty text that leaves the field's name out:
\* "'updateComponents' message does not contain an array."
msgNoComponentsArrayVague ==
  <<"'","u","p","d","a","t","e","C","o","m","p","o","n","e","n","t","s","'",
    " ","m","e","s","s","a","g","e"," ","d","o","e","s"," ","n","o","t"," ",
    "c","o","n","t","a","i","n"," ","a","n"," ","a","r","r","a","y",".">>
\* "'updateComponents' message does not contain a 'components' array."
msgNoComponentsArray ==
  <<"'","u","p","d","a","t","e","C","o","m","p","o","n","e","n","t",
    "s","'"," ","m","e","s","s","a","g","e"," ","d","o","e","s"," ",
    "n","o","t"," ","c","o","n","t","a","i","n"," ","a"," ","'","c",
    "o","m","p","o","n","e","n","t","s","'"," ","a","r","r","a","y",
    ".">>
\* "Failed to find component of type '"
msgFailedType ==
  <<"F","a","i","l","e","d"," ","t","o"," ","f","i","n","d"," ","c",
    "o","m","p","o","n","e","n","t"," ","o","f"," ","t","y","p","e",
    " ","'">>
\* "' with property '"
msgWithProperty ==
  <<"'"," ","w","i","t","h"," ","p","r","o","p","e","r","t","y"," ",
    "'">>
\* "' containing value "
msgContainingValue ==
  <<"'"," ","c","o","n","t","a","i","n","i","n","g"," ","v","a","l",
    "u","e"," ">>
\* "'."
msgQuoteDot == <<"'",".">>
\* "."
msgDot == <<".">>
\* "Component '"
descComponent == <<"C","o","m","p","o","n","e","n","t"," ","'">>
\* "'"
descQuote == <<"'">>
\* " with property '"
descWithProperty == <<" ","w","i","t","h"," ","p","r","o","p","e","r","t","y"," ","'">>
\* " matching predicate"
descMatchingPredicate ==
  <<" ","m","a","t","c","h","i","n","g"," ","p","r","e","d","i","c",
    "a","t","e">>
\* " matching "
descMatching == <<" ","m","a","t","c","h","i","n","g"," ">>

(***************************************************************************)
(* JavaScript values.                                                      *)
(***************************************************************************)
Undefined == [t |-> "undefined"]
Null == [t |-> "null"]
Str(s) == [t |-> "string", s |-> s]
Num(n) == [t |-> "number", n |-> n]
Bool(b) == [t |-> "boolean", b |-> b]
Arr(items) == [t |-> "array", items |-> items]
Obj(kv) == [t |-> "object", kv |-> kv]
Fn(f) == [t |-> "function", f |-> f]

\* typeof v
TypeOf(v) ==
  IF v.t \in {"null", "array"} THEN "object" ELSE v.t

\* Array.isArray(v)
IsArray(v) == v.t = "array"

\* ToBoolean(v): what `!v`, `a && b` and `if (v)` test.
Truthy(v) ==
  CASE v.t \in {"undefined", "null"} -> FALSE
    [] v.t = "string" -> Len(v.s) > 0
    [] v.t = "number" -> v.n # 0
    [] v.t = "boolean" -> v.b
    [] OTHER -> TRUE

\* a === b.  Two objects, arrays or functions of a parsed message are never
\* the same reference.
StrictEq(a, b) ==
  /\ a.t = b.t
  /\ CASE a.t \in {"undefined", "null"} -> TRUE
       [] a.t = "string" -> a.s = b.s
       [] a.t = "number" -> a.n = b.n
       [] a.t = "boolean" -> a.b = b.b
       [] OTHER -> FALSE

\* Reading a property of null or undefined throws a TypeError.
CanRead(v) == v.t \notin {"undefined", "null"}

\* v[k] for a v that can be read: an object's own property, else undefined.
Get(v, k) ==
  IF v.t = "object" /\ \E i \in 1..Len(v.kv) : v.kv[i][1] = k
  THEN v.kv[CHOOSE i \in 1..Len(v.kv) : v.kv[i][1] = k][2]
  ELSE Undefined

(***************************************************************************)
(* String.prototype.toLowerCase, on the letters A-Z.                       *)
(***************************************************************************)
UpperCase ==
  <<"A","B","C","D","E","F","G","H","I","J","K","L","M",
    "N","O","P","Q","R","S","T","U","V","W","X","Y","Z">>
LowerCase ==
  <<"a","b","c","d","e","f","g","h","i","j","k","l","m",
    "n","o","p","q","r","s","t","u","v","w","x","y","z">>

ToLowerChar(c) ==
  IF \E i \in 1..Len(UpperCase) : UpperCase[i] = c
  THEN LowerCase[CHOOSE i \in 1..Len(UpperCase) : UpperCase[i] = c]
  ELSE c

ToLowerCase(s) == [i \in 1..Len(s) |-> ToLowerChar(s[i])]

\* s.includes(sub), the sense in which an error text "contains" a word.
Contains(s, sub) ==
  \E i \in 0..(Len(s) - Len(sub)) : SubSeq(s, i + 1, i + Len(sub)) = sub

(***************************************************************************)
(* JSON.stringify.  The result is a JavaScript string, or undefined for    *)
(* undefined and for a function.                                           *)
(***************************************************************************)
Digits == <<"0","1","2","3","4","5","6","7","8","9">>

RECURSIVE NatToChars(_)
NatToChars(n) ==
  IF n < 10 THEN <<Digits[n + 1]>>
  ELSE NatToChars(n \div 10) \o <<Digits[(n % 10) + 1]>>

NumberToChars(n) ==
  IF n < 0 THEN <<"-">> \o NatToChars(-n) ELSE NatToChars(n)

\* A string between double quotes (the strings of the model hold no
\* character that JSON escapes).
Quote(s) == <<"\"">> \o s \o <<"\"">>

RECURSIVE SerializeValue(_), SerializeItems(_, _), SerializeMembers(_, _, _)
\* The text of a value that has one (not undefined, not a function).
SerializeValue(v) ==
  CASE v.t = "null" -> sNull
    [] v.t = "string" -> Quote(v.s)
    [] v.t = "number" -> NumberToChars(v.n)
    [] v.t = "boolean" -> (IF v.b THEN sTrue ELSE sFalse)
    [] v.t = "array" -> <<"[">> \o SerializeItems(v.items, 1) \o <<"]">>
    [] v.t = "object" -> <<"{">> \o SerializeMembers(v.kv, 1, TRUE) \o <<"}">>

\* An array's elements from the i-th on; undefined and functions read null.
SerializeItems(items, i) ==
  IF i > Len(items) THEN <<>>
  ELSE (IF i > 1 THEN <<",">> ELSE <<>>)
       \o (IF items[i].t \in {"undefined", "function"} THEN sNull
           ELSE SerializeValue(items[i]))
       \o SerializeItems(items, i + 1)

\* An object's members from the i-th on; members holding undefined or a
\* function are left out.
SerializeMembers(kv, i, first) ==
  IF i > Len(kv) THEN <<>>
  ELSE IF kv[i][2].t \in {"undefined", "function"}
       THEN SerializeMembers(kv, i + 1, first)
       ELSE (IF first THEN <<>> ELSE <<",">>)
            \o Quote(kv[i][1]) \o <<":">> \o SerializeValue(kv[i][2])
            \o SerializeMembers(kv, i + 1, FALSE)

JSONStringify(v) ==
  IF v.t \in {"undefined", "function"} THEN Undefined
  ELSE Str(SerializeValue(v))

\* `${v}` in a template literal, for the values the source interpolates.
TemplateString(v) ==
  CASE v.t = "string" -> v.s
    [] v.t = "undefined" -> sUndefined
    [] v.t = "null" -> sNull

(***************************************************************************)
(* The strings the messages and matchers of the model are written with.    *)
(***************************************************************************)
sHello == <<"H","e","l","l","o">>
sHelloLower == <<"h","e","l","l","o">>
sEmpty == <<>>
sPathX == <<"/","x">>
sB1 == <<"b","1">>
sT1 == <<"t","1">>
sT2 == <<"t","2">>

(***************************************************************************)
(* The matcher: constructor and description.                               *)
(***************************************************************************)
\* The fields of a constructed matcher.  componentType is a string,
\* propertyName a string or undefined, propertyValue any value (a literal,
\* a predicate or undefined), caseInsensitive a boolean.
NewMatcher(componentType, propertyName, propertyValue, caseInsensitive) ==
  [componentType |-> componentType,
   propertyName |-> propertyName,
   propertyValue |-> propertyValue,
   caseInsensitive |-> caseInsensitive]

\* get description()
description(m) ==
  descComponent \o TemplateString(m.componentType) \o descQuote
  \o (IF Truthy(m.propertyName)
      THEN descWithProperty \o TemplateString(m.propertyName) \o descQuote
           \o (IF ~StrictEq(m.propertyValue, Undefined)
               THEN (IF TypeOf(m.propertyValue) = "function"
                     THEN descMatchingPredicate
                     ELSE descMatching
                          \o TemplateString(JSONStringify(m.propertyValue)))
               ELSE <<>>)
      ELSE <<>>)

(***************************************************************************)
(* Predicates a caller may pass as the expected value.                     *)
(***************************************************************************)
\* expectedValue(actualValue), for the predicates of the model:
\*   isNull    v => v === null
\*   isHello   v => v === "hello"
\*   isObject  v => typeof v === "object"
\*   never     v => false
CallPredicate(f, v) ==
  CASE f = "isNull" -> v.t = "null"
    [] f = "isHello" -> StrictEq(v, Str(sHelloLower))
    [] f = "isObject" -> TypeOf(v) = "object"
    [] f = "never" -> FALSE

(***************************************************************************)
(* valueMatches.                                                           *)
(***************************************************************************)
\* A faulty compareStrings that ignores the flag.
compareStringsIgnoringFlag(s1, s2, caseInsensitive) == s1 = s2

\* compareStrings
compareStrings(s1, s2, caseInsensitive) ==
  IF caseInsensitive THEN ToLowerCase(s1) = ToLowerCase(s2) ELSE s1 = s2

RECURSIVE valueMatches(_, _, _), ItemMatches(_, _, _)
\* valueMatches(actualValue, expectedValue), with this.caseInsensitive.
valueMatches(actual, expected, caseInsensitive) ==
  IF actual.t \in {"null", "undefined"} THEN FALSE
  ELSE IF TypeOf(expected) = "function"
    THEN CallPredicate(expected.f, actual)
  ELSE IF TypeOf(actual) = "string" /\ TypeOf(expected) = "string"
    THEN compareStrings(actual.s, expected.s, caseInsensitive)
  ELSE IF TypeOf(actual) = "number" /\ TypeOf(expected) = "number"
    THEN actual.n = expected.n
  ELSE IF TypeOf(actual) = "boolean" /\ TypeOf(expected) = "boolean"
    THEN actual.b = expected.b
  ELSE IF /\ TypeOf(actual) = "object"
          /\ ~IsArray(actual)
          /\ Truthy(Get(actual, sPath))
    THEN FALSE
  ELSE IF /\ IsArray(actual)
          /\ \E i \in 1..Len(actual.items) :
               ItemMatches(actual.items[i], expected, caseInsensitive)
    THEN TRUE
  ELSE StrictEq(JSONStringify(actual), JSONStringify(expected))

\* The body of the loop over an array's items: the item itself, then the
\* `label` and the `value` of an object item.
ItemMatches(item, expected, caseInsensitive) ==
  \/ valueMatches(item, expected, caseInsensitive)
  \/ /\ TypeOf(item) = "object"
     /\ item # Null
     /\ \/ /\ Truthy(Get(item, sLabel))
           /\ valueMatches(Get(item, sLabel), expected, caseInsensitive)
        \/ /\ Truthy(Get(item, sValue))
           /\ valueMatches(Get(item, sValue), expected, caseInsensitive)

\* The arguments the predicate is invoked with by one valueMatches call:
\* the actual value, when it is neither null nor undefined and the expected
\* value is a function.
PredicateCalls(actual, expected) ==
  IF actual.t \notin {"null", "undefined"} /\ TypeOf(expected) = "function"
  THEN <<actual>>
  ELSE <<>>

(***************************************************************************)
(* validate.                                                               *)
(***************************************************************************)
\* A returned ValidationResult, with what the call did on the way:
\* the number of components the filter callback was run on, the arguments
\* of the predicate's invocations and of the getComponentById calls.
Returned(value, inspected, calls, lookups) ==
  [kind |-> "return", value |-> value, inspected |-> inspected,
   calls |-> calls, lookups |-> lookups]

\* An uncaught TypeError leaving validate.
Thrown(inspected) ==
  [kind |-> "throw", value |-> "TypeError", inspected |-> inspected,
   calls |-> <<>>, lookups |-> <<>>]

\* { success: true }
Success == Obj(<< <<sSuccess, Bool(TRUE)>> >>)

\* { success: false, error: ... }
Failure(error) == Obj(<< <<sSuccess, Bool(FALSE)>>, <<sError, Str(error)>> >>)

\* The error texts of the three failures about components.
ErrorNoType(m) ==
  msgFailedType \o TemplateString(m.componentType) \o msgQuoteDot

ErrorNoValue(m) ==
  msgFailedType \o TemplateString(m.componentType) \o msgWithProperty
  \o TemplateString(m.propertyName) \o msgContainingValue
  \o TemplateString(JSONStringify(m.propertyValue)) \o msgDot

ErrorNoProperty(m) ==
  msgFailedType \o TemplateString(m.componentType) \o msgWithProperty
  \o TemplateString(m.propertyName) \o msgQuoteDot

\* A faulty filter callback that takes any component with props.
IsOfTypeIgnoringType(c, componentType) ==
  Truthy(Get(c, sProps))

\* The filter callback: c.props && c.props.component === this.componentType
IsOfType(c, componentType) ==
  /\ Truthy(Get(c, sProps))
  /\ StrictEq(Get(Get(c, sProps), sComponent), componentType)

\* A faulty lookup that takes the last component with the identifier.
getComponentByIdLast(components, id) ==
  IF \E i \in 1..Len(components) : StrictEq(Get(components[i], sId), id)
  THEN components[CHOOSE i \in 1..Len(components) :
         /\ StrictEq(Get(components[i], sId), id)
         /\ \A j \in (i + 1)..Len(components) :
              ~StrictEq(Get(components[j], sId), id)]
  ELSE Undefined

\* A faulty lookup that finds nothing.
getComponentByIdNone(components, id) == Undefined

\* components.find(c => c.id === id)
getComponentById(components, id) ==
  IF \E i \in 1..Len(components) : StrictEq(Get(components[i], sId), id)
  THEN components[CHOOSE i \in 1..Len(components) :
         /\ StrictEq(Get(components[i], sId), id)
         /\ \A j \in 1..(i - 1) : ~StrictEq(Get(components[j], sId), id)]
  ELSE Undefined

\* The child Text a Button's label may be taken from: the condition
\* under which the `child` reference is looked up.
ConsultsChild(m, properties) ==
  /\ StrictEq(m.componentType, Str(sButton))
  /\ StrictEq(m.propertyName, Str(sLabel))
  /\ Truthy(Get(properties, sChild))

\* One iteration of the loop over the matching components: whether it
\* returns success, and the predicate invocations and lookups it makes.
CheckComponent(m, components, component) ==
  LET properties == Get(component, sProps)
      actual == Get(properties, m.propertyName.s)
      present == ~StrictEq(actual, Undefined)
      expected == m.propertyValue
      unconstrained == StrictEq(expected, Undefined)
      direct == /\ present
                /\ \/ unconstrained
                   \/ valueMatches(actual, expected, m.caseInsensitive)
      directCalls == IF present /\ ~unconstrained
                     THEN PredicateCalls(actual, expected)
                     ELSE <<>>
      childId == Get(properties, sChild)
      childComponent == getComponentById(components, childId)
      childIsText ==
        /\ Truthy(childComponent)
        /\ Truthy(Get(childComponent, sProps))
        /\ StrictEq(Get(Get(childComponent, sProps), sComponent),
                    Str(sTextType))
      textValue == Get(Get(childComponent, sProps), sText)
  IN  IF ~Truthy(properties)
      THEN [success |-> FALSE, calls |-> <<>>, lookups |-> <<>>]
      ELSE IF direct
      THEN [success |-> TRUE, calls |-> directCalls, lookups |-> <<>>]
      ELSE IF ~ConsultsChild(m, properties)
      THEN [success |-> FALSE, calls |-> directCalls, lookups |-> <<>>]
      ELSE IF ~childIsText
      THEN [success |-> FALSE, calls |-> directCalls,
            lookups |-> <<childId>>]
      ELSE [success |-> valueMatches(textValue, expected, m.caseInsensitive),
            calls |-> directCalls \o PredicateCalls(textValue, expected),
            lookups |-> <<childId>>]

RECURSIVE Scan(_, _, _, _)
\* The loop over the matching components from the i-th on, which stops
\* at the first success.
Scan(m, components, matching, i) ==
  IF i > Len(matching)
  THEN [success |-> FALSE, calls |-> <<>>, lookups |-> <<>>]
  ELSE LET here == CheckComponent(m, components, matching[i])
           rest == Scan(m, components, matching, i + 1)
       IN  IF here.success THEN here
           ELSE [success |-> rest.success,
                 calls |-> here.calls \o rest.calls,
                 lookups |-> here.lookups \o rest.lookups]

\* components.filter(...)
matchingComponents(m, components) ==
  SelectSeq(components, LAMBDA c : IsOfType(c, m.componentType))

\* The index of the first element the filter callback cannot read `props`
\* of (null), or 0.
FirstUnreadable(components) ==
  IF \E i \in 1..Len(components) : ~CanRead(components[i])
  THEN CHOOSE i \in 1..Len(components) :
         /\ ~CanRead(components[i])
         /\ \A j \in 1..(i - 1) : CanRead(components[j])
  ELSE 0

\* validate(schema), for a schema that is an object.
validate(m, s) ==
  LET updateComponents == Get(s, sUpdateComponents)
      list == Get(updateComponents, sComponents)
      components == list.items
      matching == matchingComponents(m, components)
      scan == Scan(m, components, matching, 1)
  IN  IF ~Truthy(updateComponents)
      THEN Returned(Failure(msgNoUpdateComponents), 0, <<>>, <<>>)
      ELSE IF ~IsArray(list)
      THEN Returned(Failure(msgNoComponentsArray), 0, <<>>, <<>>)
      ELSE IF FirstUnreadable(components) # 0
      THEN Thrown(FirstUnreadable(components))
      ELSE IF Len(matching) = 0
      THEN Returned(Failure(ErrorNoType(m)), Len(components), <<>>, <<>>)
      ELSE IF ~Truthy(m.propertyName)
      THEN Returned(Success, Len(components), <<>>, <<>>)
      ELSE IF scan.success
      THEN Returned(Success, Len(components), scan.calls, scan.lookups)
      ELSE IF ~StrictEq(m.propertyValue, Undefined)
      THEN Returned(Failure(ErrorNoValue(m)), Len(components),
                    scan.calls, scan.lookups)
      ELSE Returned(Failure(ErrorNoProperty(m)), Len(components),
                    scan.calls, scan.lookups)

(***************************************************************************)
(* The messages of the model.                                              *)
(***************************************************************************)
\* { id, props: { component: type, ...members } }
Component(id, type, members) ==
  Obj(<< <<sId, Str(id)>>,
         <<sProps, Obj(<< <<sComponent, Str(type)>> >> \o members)>> >>)

\* Component records: Buttons with a label, a child reference or both,
\* Texts whose text is a string, null, a path binding or an array.
ComponentRecords ==
  { Component(sB1, sButton, << <<sLabel, Str(sHello)>> >>),
    Component(sB1, sButton, << <<sChild, Str(sT1)>> >>),
    Component(sB1, sButton, << <<sLabel, Str(sHello)>>, <<sChild, Str(sT1)>> >>),
    Component(sT1, sTextType, << <<sText, Str(sHelloLower)>> >>),
    Component(sT1, sTextType, << <<sText, Str(sHello)>> >>),
    Component(sT2, sTextType, << <<sText, Null>> >>),
    Component(sT2, sTextType,
              << <<sText, Obj(<< <<sPath, Str(sPathX)>> >>)>> >>),
    Component(sT2, sTextType, << <<sText, Arr(<<Str(sHelloLower)>>)>> >>),
    \* a record without props, and one without id
    Obj(<< <<sId, Str(sT1)>> >>),
    Obj(<< <<sProps, Obj(<< <<sComponent, Str(sTextType)>>,
                            <<sText, Str(sHelloLower)>> >>)>> >>) }

\* What a component list may hold: records, and null.
Elements == ComponentRecords \cup {Null}

\* All sequences over S of length at most n.
SeqsUpTo(S, n) == UNION {[1..k -> S] : k \in 0..n}

Message(components) ==
  Obj(<< <<sUpdateComponents, Obj(<< <<sComponents, components>> >>)>> >>)

\* Messages with a component list.
ListMessages == {Message(Arr(cs)) : cs \in SeqsUpTo(Elements, MaxComponents)}

\* Messages without one: no updateComponents, a null or string
\* updateComponents, and a components that is absent, a string or an object.
OtherMessages ==
  { Obj(<<>>),
    Obj(<< <<sUpdateComponents, Null>> >>),
    Obj(<< <<sUpdateComponents, Str(sHello)>> >>),
    Obj(<< <<sUpdateComponents, Obj(<<>>)>> >>),
    Message(Str(sHello)),
    Message(Obj(<< <<sId, Str(sT1)>> >>)) }

Messages == ListMessages \cup OtherMessages

(***************************************************************************)
(* The matchers of the model.                                              *)
(***************************************************************************)
Predicates == {Fn("isNull"), Fn("isHello"), Fn("isObject"), Fn("never")}

ComponentTypes == {Str(sButton), Str(sTextType)}

PropertyNames == {Undefined, Str(sLabel), Str(sText)}

\* Expected values of the matchers validate is called on.
ExpectedValues ==
  {Undefined, Str(sHelloLower), Str(sHello)} \cup Predicates

\* Items of an array held as a property value: primitives (falsy ones
\* among them) and choice options { label, value }.
Items ==
  { Str(sHelloLower), Str(sEmpty), Num(0), Bool(FALSE), Null,
    Obj(<< <<sLabel, Str(sHello)>>, <<sValue, Num(0)>> >>),
    Obj(<< <<sLabel, Str(sEmpty)>>, <<sValue, Bool(FALSE)>> >>),
    Obj(<< <<sLabel, Num(1)>>, <<sValue, Str(sHelloLower)>> >>) }

\* Path bindings, with a truthy and with a falsy path.
PathObjects ==
  { Obj(<< <<sPath, Str(sPathX)>> >>),
    Obj(<< <<sPath, Str(sEmpty)>> >>),
    Obj(<< <<sPath, Num(0)>> >>),
    Obj(<< <<sPath, Null>> >>) }

\* Actual values valueMatches is called on.
ActualValues ==
  {Null, Str(sHello), Str(sHelloLower), Str(sEmpty), Num(0), Num(1),
   Bool(FALSE), Bool(TRUE)}
  \cup PathObjects
  \cup {Arr(items) : items \in SeqsUpTo(Items, MaxItems)}

\* Literal expected values valueMatches is called with.
Literals ==
  {Undefined, Null, Str(sHello), Str(sHelloLower), Str(sEmpty), Num(0), Num(1),
   Bool(FALSE), Bool(TRUE), Arr(<<>>), Arr(<<Num(0)>>)}
  \cup PathObjects

(***************************************************************************)
(* The state machine: a matcher is constructed, then validate, the         *)
(* description getter and valueMatches are called on it; a call's outcome  *)
(* is held until the caller has taken it.                                  *)
(***************************************************************************)
NoResult == [kind |-> "none"]

Init ==
  /\ pc = "new"
  /\ matcher = Undefined
  /\ schema = Undefined
  /\ result = NoResult
  /\ actualValue = Undefined
  /\ matched = Undefined
  /\ desc = Undefined

\* new UpdateComponentsSchemaMatcher(componentType, propertyName,
\* propertyValue, caseInsensitive)
Construct(types, names, values) ==
  /\ pc = "new"
  /\ \E componentType \in types, propertyName \in names,
        propertyValue \in values, caseInsensitive \in BOOLEAN :
       matcher' = NewMatcher(componentType, propertyName, propertyValue,
                             caseInsensitive)
  /\ pc' = "constructed"
  /\ UNCHANGED <<schema, result, actualValue, matched, desc>>

ConstructMatcher == Construct(ComponentTypes, PropertyNames, ExpectedValues)

ConstructLiteralMatcher == Construct({Str(sTextType)}, {Str(sText)}, Literals)

\* matcher.validate(schema)
CallValidate ==
  /\ pc = "constructed"
  /\ \E s \in Messages :
       /\ schema' = s
       /\ result' = validate(matcher, s)
  /\ pc' = "validated"
  /\ UNCHANGED <<matcher, actualValue, matched, desc>>

\* matcher.description
GetDescription ==
  /\ pc = "constructed"
  /\ desc' = Str(description(matcher))
  /\ pc' = "described"
  /\ UNCHANGED <<matcher, schema, result, actualValue, matched>>

\* this.valueMatches(actualValue, this.propertyValue)
CallValueMatches ==
  /\ pc = "constructed"
  /\ \E a \in ActualValues :
       /\ actualValue' = a
       /\ matched' = Bool(valueMatches(a, matcher.propertyValue,
                                       matcher.caseInsensitive))
  /\ pc' = "matched"
  /\ UNCHANGED <<matcher, schema, result, desc>>

\* The caller takes the outcome; the matcher is as it was constructed.
Release ==
  /\ pc \in {"validated", "described", "matched"}
  /\ pc' = "constructed"
  /\ schema' = Undefined
  /\ result' = NoResult
  /\ actualValue' = Undefined
  /\ matched' = Undefined
  /\ desc' = Undefined
  /\ UNCHANGED matcher

Next == ConstructMatcher \/ CallValidate \/ GetDescription \/ Release

Spec == Init /\ [][Next]_vars

NextValueMatches == ConstructLiteralMatcher \/ CallValueMatches \/ Release

SpecValueMatches == Init /\ [][NextValueMatches]_vars

(***************************************************************************)
(* Vocabulary of the properties.                                           *)
(***************************************************************************)
Validated == pc = "validated"

ReturnedResult == result.kind = "return"

Succeeded == ReturnedResult /\ Get(result.value, sSuccess) = Bool(TRUE)

Failed == ReturnedResult /\ Get(result.value, sSuccess) = Bool(FALSE)

\* The error text of a returned result, or undefined.
ErrorOf(r) == Get(r.value, sError)

\* Whether the error of a returned result is a string containing `word`.
ErrorMentions(r, word) ==
  ErrorOf(r).t = "string" /\ Contains(ErrorOf(r).s, word)

IsLiteral(v) == v.t # "function"

\* The `components` of a message, or undefined when it has none to read.
ComponentsOf(s) ==
  IF CanRead(Get(s, sUpdateComponents))
  THEN Get(Get(s, sUpdateComponents), sComponents)
  ELSE Undefined

\* A message whose components is a sequence of component records (objects).
WellFormed(s) ==
  /\ ComponentsOf(s).t = "array"
  /\ \A i \in 1..Len(ComponentsOf(s).items) :
       ComponentsOf(s).items[i].t = "object"

\* The component records of a well-formed message.
RecordsOf(s) == ComponentsOf(s).items

\* Component c names `type` (a string value) as its type.
HasType(c, type) == Get(Get(c, sProps), sComponent) = type

\* The indices of the components of the matcher's type.
OfMatcherType(s) ==
  {i \in 1..Len(RecordsOf(s)) : HasType(RecordsOf(s)[i], matcher.componentType)}

\* The value component c holds for the matcher's property, or undefined.
PropertyOf(c) == Get(Get(c, sProps), matcher.propertyName.s)

\* The component a reference resolves to: the first one of the message
\* with that identifier.
ResolvesTo(s, ref, j) ==
  /\ j \in 1..Len(RecordsOf(s))
  /\ Get(RecordsOf(s)[j], sId) = ref
  /\ \A k \in 1..(j - 1) : Get(RecordsOf(s)[k], sId) # ref

\* The Button/label rule: the matcher looks for a Button's label, c has a
\* child reference, and the child is a Text whose text matches the expected
\* value.
SatisfiesChildRule(s, c) ==
  /\ matcher.componentType = Str(sButton)
  /\ matcher.propertyName = Str(sLabel)
  /\ Truthy(Get(Get(c, sProps), sChild))
  /\ \E j \in 1..Len(RecordsOf(s)) :
       /\ ResolvesTo(s, Get(Get(c, sProps), sChild), j)
       /\ HasType(RecordsOf(s)[j], Str(sTextType))
       /\ valueMatches(Get(Get(RecordsOf(s)[j], sProps), sText),
                       matcher.propertyValue, matcher.caseInsensitive)

(***************************************************************************)
(* C1.  validate never raises an exception, whatever the message (null     *)
(* elements, elements without props or id included) when the expected      *)
(* value is a literal: it returns a result, and a failing result carries a *)
(* non-empty error string.                                                 *)
(***************************************************************************)
C1_NeverThrows ==
  (Validated /\ IsLiteral(matcher.propertyValue)) =>
    /\ ReturnedResult
    /\ Failed => (ErrorOf(result).t = "string" /\ Len(ErrorOf(result).s) > 0)

(***************************************************************************)
(* C2.  Whatever the matcher: a message with no updateComponents field     *)
(* fails with an error containing "updateComponents"; a message that has   *)
(* updateComponents but whose components is not a sequence fails with an   *)
(* error containing "components"; in both cases no component is inspected  *)
(* and no predicate is invoked.                                            *)
(***************************************************************************)
NothingInspected ==
  result.inspected = 0 /\ result.calls = <<>> /\ result.lookups = <<>>

\* C2 as stated, "has updateComponents" being the field being there.
C2_Original ==
  Validated =>
    /\ Get(schema, sUpdateComponents) = Undefined =>
         /\ Failed
         /\ ErrorMentions(result, sUpdateComponents)
         /\ NothingInspected
    /\ (Get(schema, sUpdateComponents) # Undefined
        /\ ~IsArray(ComponentsOf(schema))) =>
         /\ Failed
         /\ ErrorMentions(result, sComponents)
         /\ NothingInspected

\* C2 as amended: an updateComponents that is absent or falsy (null) fails
\* with an error containing "updateComponents"; a truthy updateComponents
\* whose components is not a sequence fails with an error containing
\* "components"; in both cases nothing is inspected and no predicate invoked.
C2_MissingPartsFail ==
  Validated =>
    /\ ~Truthy(Get(schema, sUpdateComponents)) =>
         /\ Failed
         /\ ErrorMentions(result, sUpdateComponents)
         /\ NothingInspected
    /\ (Truthy(Get(schema, sUpdateComponents))
        /\ ~IsArray(ComponentsOf(schema))) =>
         /\ Failed
         /\ ErrorMentions(result, sComponents)
         /\ NothingInspected

\* C2 witness: a matcher with a predicate has validated a message whose updateComponents
\* is an object without a components sequence.
C2_Witness ==
  /\ Validated
  /\ matcher.propertyValue.t = "function"
  /\ Get(schema, sUpdateComponents).t = "object"
  /\ ~IsArray(ComponentsOf(schema))
  /\ Failed

(***************************************************************************)
(* C3.  With no property name configured, validate on a message with a     *)
(* well-formed component sequence succeeds exactly when some component has *)
(* props.component equal to the configured type; otherwise it fails with   *)
(* an error naming the type.  The expected value and the case flag have no *)
(* effect on the outcome.                                                  *)
(***************************************************************************)
C3_TypeOnly ==
  (Validated /\ matcher.propertyName = Undefined /\ WellFormed(schema)) =>
    /\ ReturnedResult
    /\ Succeeded <=> OfMatcherType(schema) # {}
    /\ ~Succeeded => ErrorMentions(result, matcher.componentType.s)
    /\ \A v \in ExpectedValues, ci \in BOOLEAN :
         validate([matcher EXCEPT !.propertyValue = v,
                                  !.caseInsensitive = ci], schema).value
           = result.value

\* C3 witness: a type-only matcher that carries an expected value has succeeded on a
\* message with a component of its type and one of another type.
C3_Witness ==
  /\ Validated
  /\ matcher.propertyName = Undefined
  /\ matcher.propertyValue # Undefined
  /\ WellFormed(schema)
  /\ OfMatcherType(schema) # {}
  /\ OfMatcherType(schema) # 1..Len(RecordsOf(schema))
  /\ Succeeded

(***************************************************************************)
(* C4.  A matcher for Button/label with an expected value v succeeds on a  *)
(* message holding a Button without a direct label whose child reference   *)
(* resolves, by identifier among all components, to a Text whose text      *)
(* matches v.  For any other type or property name no child reference is   *)
(* ever looked up.                                                         *)
(***************************************************************************)
C4_ButtonChildText ==
  /\ (/\ Validated
      /\ WellFormed(schema)
      /\ matcher.componentType = Str(sButton)
      /\ matcher.propertyName = Str(sLabel)
      /\ matcher.propertyValue # Undefined
      /\ \E i \in OfMatcherType(schema) :
           /\ Get(Get(RecordsOf(schema)[i], sProps), sLabel) = Undefined
           /\ SatisfiesChildRule(schema, RecordsOf(schema)[i]))
     => Succeeded
  /\ (/\ Validated
      /\ ~(/\ matcher.componentType = Str(sButton)
           /\ matcher.propertyName = Str(sLabel)))
     => result.lookups = <<>>

\* C4 witness: a Button without label has been matched through its child Text, the
\* child having been looked up by its identifier.
C4_Witness ==
  /\ Validated
  /\ WellFormed(schema)
  /\ matcher.componentType = Str(sButton)
  /\ matcher.propertyName = Str(sLabel)
  /\ matcher.propertyValue = Str(sHelloLower)
  /\ ~matcher.caseInsensitive
  /\ \A i \in OfMatcherType(schema) :
       Get(Get(RecordsOf(schema)[i], sProps), sLabel) = Undefined
  /\ result.lookups = <<Str(sT1)>>
  /\ Succeeded

(***************************************************************************)
(* C5.  For a string property value and a string expected value equal      *)
(* after lower-casing but not exactly, with exactly one component of the   *)
(* configured type carrying the property: validate succeeds when           *)
(* caseInsensitive is true and fails when it is false; exactly equal       *)
(* strings match under either setting.                                     *)
(***************************************************************************)
\* The components of the matcher's type that carry its property.
Carriers(s) ==
  {i \in OfMatcherType(s) : PropertyOf(RecordsOf(s)[i]) # Undefined}

\* The one carrier's value.
CarriedValue(s) == PropertyOf(RecordsOf(s)[CHOOSE i \in Carriers(s) : TRUE])

\* Exactly one component of the type carries the property, a string, and
\* the expected value is a string equal to it after lower-casing.
OneStringCarrier ==
  /\ Validated
  /\ WellFormed(schema)
  /\ matcher.propertyName # Undefined
  /\ matcher.propertyValue.t = "string"
  /\ Cardinality(Carriers(schema)) = 1
  /\ CarriedValue(schema).t = "string"
  /\ ToLowerCase(CarriedValue(schema).s) = ToLowerCase(matcher.propertyValue.s)

SomeChildRule ==
  \E i \in OfMatcherType(schema) :
    SatisfiesChildRule(schema, RecordsOf(schema)[i])

\* C5 as stated.
C5_Original ==
  OneStringCarrier =>
    IF CarriedValue(schema) = matcher.propertyValue
    THEN Succeeded
    ELSE (matcher.caseInsensitive => Succeeded)
         /\ (~matcher.caseInsensitive => Failed)

\* C5 as amended: with caseInsensitive false the validation fails unless a
\* component of the type satisfies the Button/label child-Text rule, in
\* which case it succeeds; the rest as stated.
C5_CaseFlag ==
  OneStringCarrier =>
    IF CarriedValue(schema) = matcher.propertyValue
    THEN Succeeded
    ELSE (matcher.caseInsensitive => Succeeded)
         /\ (~matcher.caseInsensitive => (Failed <=> ~SomeChildRule))
         /\ (~matcher.caseInsensitive => (Succeeded <=> SomeChildRule))

\* C5 witness: "Hello" has been matched against the expected "hello" by a
\* case-insensitive matcher, with no child Text to fall back on.
C5_Witness ==
  /\ OneStringCarrier
  /\ CarriedValue(schema) = Str(sHello)
  /\ matcher.propertyValue = Str(sHelloLower)
  /\ matcher.caseInsensitive
  /\ ~SomeChildRule
  /\ Succeeded

(***************************************************************************)
(* C6.  When the expected value is a predicate and exactly one component   *)
(* of the type has the property present (no Button child fallback), the    *)
(* predicate is invoked with the actual value and validate succeeds        *)
(* exactly when the predicate returns true on it, for every actual value   *)
(* (null, arrays, objects with a path included).                           *)
(***************************************************************************)
C6_PredicateDecides ==
  (/\ Validated
   /\ WellFormed(schema)
   /\ matcher.propertyName # Undefined
   /\ matcher.propertyValue.t = "function"
   /\ Cardinality(Carriers(schema)) = 1
   /\ \A i \in OfMatcherType(schema) :
        ~ConsultsChild(matcher, Get(RecordsOf(schema)[i], sProps)))
  => /\ result.calls = <<CarriedValue(schema)>>
     /\ Succeeded <=> CallPredicate(matcher.propertyValue.f,
                                    CarriedValue(schema))

(***************************************************************************)
(* C7.  In valueMatches an actual value that is a non-sequence object      *)
(* carrying a path field never matches a literal expected value, whatever  *)
(* the path's value (falsy ones included) and whatever the literal (an     *)
(* object equal to the actual value included).                             *)
(***************************************************************************)
HasPathField(v) ==
  v.t = "object" /\ \E i \in 1..Len(v.kv) : v.kv[i][1] = sPath

\* C7: a path-carrying object handed to valueMatches with a literal expected
\* value gives false.
C7_PathNeverMatches ==
  (/\ pc = "matched"
   /\ HasPathField(actualValue)
   /\ IsLiteral(matcher.propertyValue))
  => matched = Bool(FALSE)

(***************************************************************************)
(* C8.  In valueMatches a sequence is searched element-wise: it matches    *)
(* whenever some element, or some object element's label or value          *)
(* sub-field, matches the expected literal (0, false and "" held in a      *)
(* sub-field included); when none does, the result is the equality of the  *)
(* serialised sequence and the serialised expected value.                  *)
(***************************************************************************)
SubFieldMatches(item, key) ==
  /\ item.t = "object"
  /\ Get(item, key) # Undefined
  /\ valueMatches(Get(item, key), matcher.propertyValue,
                  matcher.caseInsensitive)

SomeElementMatches(items) ==
  \E i \in 1..Len(items) :
    \/ valueMatches(items[i], matcher.propertyValue, matcher.caseInsensitive)
    \/ SubFieldMatches(items[i], sLabel)
    \/ SubFieldMatches(items[i], sValue)

\* C8: for a sequence, valueMatches gives the element-wise match or, failing
\* that, the equality of the serialisations.
C8_ElementWise ==
  (/\ pc = "matched"
   /\ IsArray(actualValue)
   /\ IsLiteral(matcher.propertyValue))
  => matched =
       Bool(\/ SomeElementMatches(actualValue.items)
            \/ JSONStringify(actualValue) = JSONStringify(matcher.propertyValue))

(***************************************************************************)
(* C9.  With a property name configured and a component of the type in    *)
(* the message, validate succeeds exactly when some component of the type  *)
(* (a) has the property present and, when an expected value is configured, *)
(* matching it, or (b) satisfies the Button/label child-Text rule;         *)
(* otherwise it fails with an error naming the type, the property name     *)
(* and, when configured, the expected value.  A result has an error        *)
(* string exactly when it is a failure.                                    *)
(***************************************************************************)
\* How the class names an expected value in its description: the JSON text
\* of a literal, the word "predicate" for a function.
ExpectedValueName(m) ==
  IF m.propertyValue.t = "function"
  THEN <<"p","r","e","d","i","c","a","t","e">>
  ELSE JSONStringify(m.propertyValue).s

HasPropertyMatching(c) ==
  /\ PropertyOf(c) # Undefined
  /\ \/ matcher.propertyValue = Undefined
     \/ valueMatches(PropertyOf(c), matcher.propertyValue,
                     matcher.caseInsensitive)

\* C9: success exactly by (a) or (b); a failure names type, property and
\* expected value; an error string exactly on failure.
C9_PropertyOutcome ==
  (/\ Validated
   /\ WellFormed(schema)
   /\ matcher.propertyName # Undefined
   /\ OfMatcherType(schema) # {})
  => /\ ReturnedResult
     /\ Succeeded <=>
          \E i \in OfMatcherType(schema) :
            \/ HasPropertyMatching(RecordsOf(schema)[i])
            \/ SatisfiesChildRule(schema, RecordsOf(schema)[i])
     /\ ~Succeeded =>
          /\ ErrorMentions(result, matcher.componentType.s)
          /\ ErrorMentions(result, matcher.propertyName.s)
          /\ matcher.propertyValue # Undefined =>
               ErrorMentions(result, ExpectedValueName(matcher))
     /\ (ErrorOf(result).t = "string") <=> Failed

(***************************************************************************)
(* C10.  The result does not depend on the order of the components: for a  *)
(* message whose components have pairwise distinct identifiers and a       *)
(* matcher with a literal expected value, validate returns the same result *)
(* on every permutation of the components; and appending a component       *)
(* record to the sequence never turns a success into a failure.            *)
(***************************************************************************)
DistinctIds(cs) ==
  \A i, j \in 1..Len(cs) :
    i # j => Get(cs[i], sId) # Get(cs[j], sId)

\* The bijections of 1..n.
PermutationsOf(n) ==
  {p \in [1..n -> 1..n] : \A i, j \in 1..n : p[i] = p[j] => i = j}

Permuted(cs, p) == [i \in 1..Len(cs) |-> cs[p[i]]]

\* C10: the same result on every permutation, and a success stays one when
\* a component record is appended.
C10_OrderIndependent ==
  (/\ Validated
   /\ WellFormed(schema)
   /\ DistinctIds(RecordsOf(schema))
   /\ IsLiteral(matcher.propertyValue))
  => /\ \A p \in PermutationsOf(Len(RecordsOf(schema))) :
          validate(matcher, Message(Arr(Permuted(RecordsOf(schema), p)))).value
            = result.value
     /\ Succeeded =>
          \A c \in ComponentRecords :
            Get(validate(matcher,
                         Message(Arr(Append(RecordsOf(schema), c)))).value,
                sSuccess) = Bool(TRUE)

\* C10 witness: a Button listed before the child Text it refers to has been matched
\* through that child, the list being one with a different permutation.
C10_Witness ==
  /\ Validated
  /\ WellFormed(schema)
  /\ DistinctIds(RecordsOf(schema))
  /\ IsLiteral(matcher.propertyValue)
  /\ Len(RecordsOf(schema)) = 2
  /\ RecordsOf(schema)[1] # RecordsOf(schema)[2]
  /\ result.lookups # <<>>
  /\ Succeeded

====
